---- MODULE Spec2Model ----
(***************************************************************************)
(* State machine of the help-center bot (src/help.py).  One action per     *)
(* inbound update: /start, a button press, a media message, a text         *)
(* message.  Each action is the whole handler, run to completion or to the *)
(* exception that aborts it.                                               *)
(*                                                                         *)
(* Strings.  A message text is the sequence of its atoms; the atoms form a *)
(* prefix-free alphabet (no atom is a prefix of another), so a text is     *)
(* exactly one sequence of atoms and text.startswith(p), for an atom p,    *)
(* is "the first atom is p".  The atom " " is whitespace.  A callback      *)
(* token is the sequence of its "_"-separated fields, i.e. data.split("_").*)
(* Chat ids and ticket ids are decimal strings where the code holds them   *)
(* as strings (ToString / ParseInt stand for str() / int()).               *)
(*                                                                         *)
(* Transport.  bot.send_message to another chat either succeeds or raises; *)
(* the i-th such call of a handler fails iff i is in the input `fails`.    *)
(* Answers to the update itself (query.answer, edit_message_text,          *)
(* message.reply_text) go to the chat that has just sent the update and    *)
(* are taken to succeed.  save_state is taken to succeed.                  *)
(*                                                                         *)
(* Dispatch.  main builds the Application without concurrent_updates and  *)
(* registers every handler blocking (the default), so the library hands an *)
(* update to its handler only when the handler of the update before it has *)
(* returned: the handlers run one after the other.  SpecAwait shows the    *)
(* approval of a payment step by step, one step per await, to check what   *)
(* that rule is worth; `tasks` holds the approvals suspended at an await   *)
(* and is empty in every other specification.                              *)
(*                                                                         *)
(* History.  `hist` records the ticket ids resolved and the links          *)
(* delivered per ticket; it is written only in the behaviours that start   *)
(* from InitHist and no handler reads it.                                  *)
(*                                                                         *)
(* Crash.  The process can be killed inside the save_state call of the     *)
(* /start handler (KillInSave) and is then started again (main); this is   *)
(* part of SpecCrash only.                                                 *)
(*                                                                         *)
(* Left out of the records: first_name / issues / last_service of a user,  *)
(* service / caption / text / has_media of a ticket and started_at of a    *)
(* session: they are only shown in the notification to the admins, no      *)
(* handler decides anything by them.                                       *)
(***************************************************************************)
EXTENDS Integers, Sequences, FiniteSets, TLC

\* ------------------------------------------------------------------ bounds
\* clock readings (milliseconds) are 1..MaxTime
MaxTime == 2
\* payment_submitted and tech_submitted are capped at MaxCount,
\* links_sent at MaxCount + 1
MaxCount == 2

\* ------------------------------------------------------------------ identities
\* the allow-list parsed from ADMIN_CHAT_ID
ADMIN_IDS == {1, 2}
\* every identity that sends updates: the admins and one outsider
Ids == {1, 2, 3}

NoId == 0 - 1

\* int(x) for the decimal strings that occur; NoId when int() raises
ParseInt(str) ==
    IF \E i \in 0..9 : ToString(i) = str
    THEN CHOOSE i \in 0..9 : ToString(i) = str
    ELSE NoId

\* ------------------------------------------------------------------ sequences
RECURSIVE SetToSeq(_)
\* the elements of a finite set of integers in ascending order
SetToSeq(S) ==
    IF S = {} THEN <<>>
    ELSE LET m == CHOOSE x \in S : \A y \in S : x <= y
         IN <<m>> \o SetToSeq(S \ {m})

\* ------------------------------------------------------------------ texts
WS == " "

\* str.lower() on an atom
LowerAtom(a) ==
    CASE a = "/CANCEL" -> "/cancel"
      [] a = "/START"  -> "/start"
      [] OTHER         -> a

\* str.lower()
Lower(t) == [i \in 1..Len(t) |-> LowerAtom(t[i])]

RECURSIVE LStrip(_)
LStrip(t) == IF t # <<>> /\ Head(t) = WS THEN LStrip(Tail(t)) ELSE t

RECURSIVE RStrip(_)
RStrip(t) ==
    IF t # <<>> /\ t[Len(t)] = WS THEN RStrip(SubSeq(t, 1, Len(t) - 1)) ELSE t

\* str.strip()
Strip(t) == RStrip(LStrip(t))

\* the first whitespace-delimited word of a text without leading whitespace
RECURSIVE FirstWord(_)
FirstWord(t) ==
    IF t = <<>> \/ Head(t) = WS THEN <<>> ELSE <<Head(t)>> \o FirstWord(Tail(t))

RECURSIVE SplitMax(_, _)
\* str.split(maxsplit=n): at most n splits at runs of whitespace; the last
\* part keeps its trailing whitespace once the n splits are used up
SplitMax(t, n) ==
    LET u == LStrip(t) IN
    IF u = <<>> THEN <<>>
    ELSE IF n = 0 THEN <<u>>
    ELSE LET w == FirstWord(u)
         IN <<w>> \o SplitMax(SubSeq(u, Len(w) + 1, Len(u)), n - 1)

\* a split that never splits
Split_whole(t) == IF Strip(t) = <<>> THEN <<>> ELSE <<Strip(t)>>

\* str.split(): a text has no more words than atoms
Split(t) == SplitMax(t, Len(t))

\* text.startswith(p) for an atom p
StartsWith(t, p) == t # <<>> /\ Head(t) = p

SlashAtoms ==
    {"/cancel", "/CANCEL", "/start", "/START", "/reply", "/set_vip_link",
     "/set_dark_link", "/set_both_link", "/get_links", "/admin", "/broadcast",
     "/insights", "/zz"}

\* text.startswith("/")
StartsWithSlash(t) == t # <<>> /\ Head(t) \in SlashAtoms

\* int(word) of a word of a text; NoId when int() raises ValueError
ParseIntWord(w) == IF Len(w) = 1 THEN ParseInt(w[1]) ELSE NoId

\* ------------------------------------------------------------------ state
VARIABLES
    help_state,      \* application.help_state: users, pending, links, counters
    disk,            \* the content of STATE_FILE
    admin_sessions,  \* application.admin_sessions
    now,             \* the reading of time.time() * 1000
    ev,              \* the update being handled, Idle between two updates
    reply,           \* the answer given to the sender of that update: its words
    outbox,          \* the bot.send_message calls made while handling it
    tasks,           \* the approval coroutines that are suspended at an await
    hist             \* history: the tickets resolved, the links delivered

vars == <<help_state, disk, admin_sessions, now, ev, reply, outbox, tasks, hist>>

None == "None"

\* the string keys of help_state["users"] and the "user_id" of a ticket
UidStrs == {ToString(u) : u \in Ids}
\* the string keys of help_state["pending"] that the clock can produce
TicketIds == {ToString(i) : i \in 1..MaxTime}

\* users.get(key) of a key that is absent
NoUser == [present |-> FALSE, last_action |-> None]
\* pending.get(key) of a key that is absent
NoTicket == [type |-> None, user_id |-> None]
\* admin_sessions.get(key) of a key that is absent
NoSession == [action |-> None, target_user |-> NoId, pending_id |-> None]

DEFAULT_STATE ==
    [users     |-> [k \in UidStrs |-> NoUser],
     pending   |-> [k \in TicketIds |-> NoTicket],
     vip_link  |-> <<>>,
     dark_link |-> <<>>,
     counters  |-> [payment_submitted |-> 0, tech_submitted |-> 0, links_sent |-> 0]]

\* dict.get(key)
GetTicket(pending, key) == IF key \in DOMAIN pending THEN pending[key] ELSE NoTicket

\* dict.pop(key, None)
PopTicket(pending, key) ==
    [k \in DOMAIN pending |-> IF k = key THEN NoTicket ELSE pending[k]]

\* admin_sessions.get(uid)
GetSession(uid) == IF uid \in DOMAIN admin_sessions THEN admin_sessions[uid] ELSE NoSession

\* a cancel that looks the session up and leaves it in place
PopSession_keep(uid) == admin_sessions

\* admin_sessions.pop(uid, None)
PopSession(uid) ==
    [a \in DOMAIN admin_sessions |-> IF a = uid THEN NoSession ELSE admin_sessions[a]]

\* the keys present in a dict
Keys(d, absent) == {k \in DOMAIN d : d[k] # absent}

\* one bot.send_message(chat_id=to, ...) call, whether it was delivered, and
\* the number of save_state calls the handler has made before it
Msg(to, kind, body, ok) ==
    [to |-> to, kind |-> kind, body |-> body, ok |-> ok, saves |-> 0]

\* the calls of a loop that the handler enters after its first save_state
AfterSave(msgs) == [i \in DOMAIN msgs |-> [msgs[i] EXCEPT !.saves = 1]]

\* no update is being handled
Idle == [handler |-> "idle", uid |-> NoId, arg |-> <<>>, session |-> NoSession]

\* no approval of the admin is suspended
NoTask == [pending_id |-> None, user_id |-> NoId, todo |-> <<>>]

\* the replies by which a button handler tells that it has removed a ticket
ResolvedReplies ==
    {<<"declined">>, <<"approved">>, <<"ignored">>, <<"ignored_notify_failed">>}

\* the ticket ids that the handler of the update e, answering r, has removed
\* from pending
ResolvedBy(e, r) ==
    IF e.handler = "handle_buttons" /\ r \in ResolvedReplies THEN {e.arg[3]}
    ELSE IF /\ e.handler = "text_handler"
            /\ r \in {<<"reply_sent">>, <<"reply_failed">>}
            /\ e.session.action = "quick_reply"
            /\ GetTicket(help_state.pending, e.session.pending_id) # NoTicket
         THEN {e.session.pending_id}
    ELSE {}

\* the ticket ids that the handler answering r has created
CreatedBy(r) ==
    IF r \in {<<"thanks_payment">>, <<"thanks_tech">>} THEN {ToString(now)} ELSE {}

\* the pairs <<ticket id, link>> of the link messages that were delivered
LinksDelivered(e, msgs) ==
    {<<e.arg[3], msgs[i].body>> :
        i \in {j \in DOMAIN msgs : msgs[j].kind = "link" /\ msgs[j].ok}}

\* the history after a handler step, kept only when it is switched on: a
\* resolved id stays in `resolved` for ever, the deliveries of an id are
\* forgotten when a new ticket is created under that id
Observe(e, r, msgs) ==
    IF ~hist.on THEN hist
    ELSE [on        |-> TRUE,
          resolved  |-> hist.resolved \cup ResolvedBy(e, r),
          delivered |-> {p \in hist.delivered : p[1] \notin CreatedBy(r)}
                            \cup LinksDelivered(e, msgs)]

\* what the handler answers and sends
Out(e, r, msgs) ==
    ev' = e /\ reply' = r /\ outbox' = msgs /\ hist' = Observe(e, r, msgs)

\* save_state(s): json.dump of the in-memory state into STATE_FILE
save_state(s) == disk' = s

Init ==
    /\ help_state = DEFAULT_STATE
    /\ disk = DEFAULT_STATE
    /\ admin_sessions = [a \in ADMIN_IDS |-> NoSession]
    /\ now = 1
    /\ ev = Idle
    /\ reply = <<>>
    /\ outbox = <<>>
    /\ tasks = [a \in ADMIN_IDS |-> NoTask]
    /\ hist = [on |-> FALSE, resolved |-> {}, delivered |-> {}]

\* the same start, with the history switched on
InitHist ==
    /\ help_state = DEFAULT_STATE
    /\ disk = DEFAULT_STATE
    /\ admin_sessions = [a \in ADMIN_IDS |-> NoSession]
    /\ now = 1
    /\ ev = Idle
    /\ reply = <<>>
    /\ outbox = <<>>
    /\ tasks = [a \in ADMIN_IDS |-> NoTask]
    /\ hist = [on |-> TRUE, resolved |-> {}, delivered |-> {}]

\* the clock advances between two updates
Tick ==
    /\ ev = Idle
    /\ now < MaxTime
    /\ now' = now + 1
    /\ UNCHANGED <<help_state, disk, admin_sessions, ev, reply, outbox, tasks, hist>>

\* the handler has returned (or raised): the application waits for the next update
Return ==
    /\ ev # Idle
    /\ ev.handler # "down"
    /\ \A a \in ADMIN_IDS : tasks[a] = NoTask
    /\ Out(Idle, <<>>, <<>>)
    /\ UNCHANGED <<help_state, disk, admin_sessions, now, tasks>>

\* users.setdefault(key, {...}): the record of the key, inserted if absent
SetDefaultUser(users, key) ==
    [users EXCEPT ![key] = IF @.present THEN @ ELSE [@ EXCEPT !.present = TRUE]]

\* STATE_FILE after open(STATE_FILE, "w") has emptied it and before json.dump
\* has written the whole document: not a JSON document
Truncated == [truncated |-> TRUE]

\* load_state(): the document in STATE_FILE, the defaults when json.load raises
load_state(file) == IF file = Truncated THEN DEFAULT_STATE ELSE file

\* the process is killed inside the save_state call of the /start handler of
\* uid: after open(..., "w") the file is empty, json.dump fills it piece by
\* piece, so the file is left truncated, or complete when the kill comes
\* after the last write.  help_state keeps the state the dead process held.
KillInSave(uid) ==
    /\ ev = Idle
    /\ help_state' = [help_state EXCEPT !.users = SetDefaultUser(@, ToString(uid))]
    /\ disk' \in {Truncated, help_state'}
    /\ Out([handler |-> "down", uid |-> uid, arg |-> <<"/start">>,
            session |-> GetSession(uid)], <<>>, <<>>)
    /\ UNCHANGED <<admin_sessions, now, tasks>>

\* the process is started again: main() loads the state file and starts
\* without admin sessions
main ==
    /\ ev.handler = "down"
    /\ help_state' = load_state(disk)
    /\ admin_sessions' = [a \in ADMIN_IDS |-> NoSession]
    /\ Out(Idle, <<>>, <<>>)
    /\ UNCHANGED <<disk, now, tasks>>

\* /start
start(e, uid) ==
    /\ help_state' = [help_state EXCEPT !.users = SetDefaultUser(@, ToString(uid))]
    /\ save_state(help_state')
    /\ Out(e, <<"menu">>, <<>>)
    /\ UNCHANGED <<admin_sessions, now, tasks>>

\* ------------------------------------------------------------------ buttons
\* an approval that falls back to the other link when its own is not set
ApprovalLinks_fallback(action, vip_link, dark_link) ==
    IF action = <<"vip">> THEN <<IF vip_link # <<>> THEN vip_link ELSE dark_link>>
    ELSE IF action = <<"dark">> THEN <<IF dark_link # <<>> THEN dark_link ELSE vip_link>>
    ELSE IF action = <<"both">> THEN <<vip_link, dark_link>>
    ELSE <<>>

\* the link messages of an approval, in the order they are sent
ApprovalLinks(action, vip_link, dark_link) ==
    (IF action = <<"vip">> /\ vip_link # <<>> THEN <<vip_link>> ELSE <<>>)
    \o (IF action = <<"dark">> /\ dark_link # <<>> THEN <<dark_link>> ELSE <<>>)
    \o (IF action = <<"both">>
        THEN (IF vip_link # <<>> THEN <<vip_link>> ELSE <<>>)
             \o (IF dark_link # <<>> THEN <<dark_link>> ELSE <<>>)
        ELSE <<>>)

\* the number of send_message calls of a loop over n messages that are made:
\* the loop ends at the first call that raises
Attempts(n, fails) ==
    IF \E i \in 1..n : i \in fails
    THEN CHOOSE i \in 1..n : i \in fails /\ \A j \in 1..(i - 1) : j \notin fails
    ELSE n

\* links_sent incremented once per approval instead of once per message
CountLinks_once(s, sent) ==
    [s EXCEPT !.counters.links_sent = @ + (IF sent > 0 THEN 1 ELSE 0)]

\* s["counters"]["links_sent"] += 1, once after each link message delivered
CountLinks(s, sent) == [s EXCEPT !.counters.links_sent = @ + sent]

handle_admin_payment_action(e, admin_id, pending_id, action, fails) ==
    LET s       == help_state
        pending == GetTicket(s.pending, pending_id)
        user_id == ParseInt(pending.user_id)
    IN
    IF admin_id \notin ADMIN_IDS THEN
        /\ Out(e, <<"unauthorized">>, <<>>)
        /\ UNCHANGED <<help_state, disk, admin_sessions, now, tasks>>
    ELSE IF pending = NoTicket THEN
        /\ Out(e, <<"not_found">>, <<>>)
        /\ UNCHANGED <<help_state, disk, admin_sessions, now, tasks>>
    ELSE IF action = <<"decline">> THEN
        IF 1 \in fails THEN
            \* send_message raises before the pop: the handler is aborted
            /\ Out(e, <<"raised">>, <<Msg(user_id, "declined", <<>>, FALSE)>>)
            /\ UNCHANGED <<help_state, disk, admin_sessions, now, tasks>>
        ELSE
            /\ help_state' = [s EXCEPT !.pending = PopTicket(@, pending_id)]
            /\ save_state(help_state')
            /\ Out(e, <<"declined">>, <<Msg(user_id, "declined", <<>>, TRUE)>>)
            /\ UNCHANGED <<admin_sessions, now, tasks>>
    ELSE
        LET send_msgs == ApprovalLinks(action, s.vip_link, s.dark_link)
            n         == Len(send_msgs)
            tried     == Attempts(n, fails)
            msgs      == [i \in 1..tried |->
                             Msg(user_id, "link", send_msgs[i], i \notin fails)]
            sent      == Cardinality({i \in 1..tried : i \notin fails})
            counted   == CountLinks(s, sent)
        IN
        IF send_msgs = <<>> THEN
            /\ Out(e, <<"no_link">>, <<>>)
            /\ UNCHANGED <<help_state, disk, admin_sessions, now, tasks>>
        ELSE IF sent < n THEN
            \* a send_message raised inside the loop: the links sent so far
            \* are counted in memory, nothing is popped or saved
            /\ help_state' = counted
            /\ Out(e, <<"raised">>, msgs)
            /\ UNCHANGED <<disk, admin_sessions, now, tasks>>
        ELSE
            /\ help_state' = [counted EXCEPT !.pending = PopTicket(@, pending_id)]
            /\ save_state(help_state')
            /\ Out(e, <<"approved">>, msgs)
            /\ UNCHANGED <<admin_sessions, now, tasks>>

\* a quick-reply session that targets the admin who pressed the button
QuickReplySession_self(admin_id, user_id, pending_id) ==
    [action |-> "quick_reply", target_user |-> admin_id, pending_id |-> pending_id]

\* the session that a press of "Reply to user" gives the admin
QuickReplySession(admin_id, user_id, pending_id) ==
    [action |-> "quick_reply", target_user |-> user_id, pending_id |-> pending_id]

handle_admin_tech_action(e, admin_id, pending_id, action, fails) ==
    LET s       == help_state
        pending == GetTicket(s.pending, pending_id)
        user_id == ParseInt(pending.user_id)
    IN
    IF admin_id \notin ADMIN_IDS THEN
        /\ Out(e, <<"unauthorized">>, <<>>)
        /\ UNCHANGED <<help_state, disk, admin_sessions, now, tasks>>
    ELSE IF pending = NoTicket THEN
        /\ Out(e, <<"not_found">>, <<>>)
        /\ UNCHANGED <<help_state, disk, admin_sessions, now, tasks>>
    ELSE IF action = <<"ignore">> THEN
        \* the ticket is removed whether or not the user could be notified
        /\ help_state' = [s EXCEPT !.pending = PopTicket(@, pending_id)]
        /\ save_state(help_state')
        /\ Out(e, IF 1 \in fails THEN <<"ignored_notify_failed">> ELSE <<"ignored">>,
               <<Msg(user_id, "ignored", <<>>, 1 \notin fails)>>)
        /\ UNCHANGED <<admin_sessions, now, tasks>>
    ELSE IF action = <<"reply">> THEN
        /\ admin_sessions' = [admin_sessions EXCEPT ![admin_id] =
               QuickReplySession(admin_id, user_id, pending_id)]
        /\ Out(e, <<"quick_reply_mode">>, <<>>)
        /\ UNCHANGED <<help_state, disk, now, tasks>>
    ELSE
        /\ Out(e, <<"unknown_action">>, <<>>)
        /\ UNCHANGED <<help_state, disk, admin_sessions, now, tasks>>

\* a session that is updated in place and keeps the earlier parameters
StartSession_merge(uid, mode) == [admin_sessions EXCEPT ![uid].action = mode]

\* admin_sessions[uid] = {"action": mode}
StartSession(uid, mode) ==
    [admin_sessions EXCEPT ![uid] = [NoSession EXCEPT !.action = mode]]

\* users.setdefault(key, {}).update({"last_action": ...})
SetFlow(users, key, last_action) ==
    [users EXCEPT ![key] = [present |-> TRUE, last_action |-> last_action]]

PanelModes == {<<"set", "vip">>, <<"set", "dark">>, <<"set", "both">>, <<"broadcast">>}

\* the session action of an admin-panel mode button
ModeOf(action) ==
    CASE action = <<"set", "vip">>  -> "set_vip"
      [] action = <<"set", "dark">> -> "set_dark"
      [] action = <<"set", "both">> -> "set_both"
      [] action = <<"broadcast">>   -> "broadcast"

\* a split that takes the last field for the ticket id
SplitPayload_swapped(data) ==
    [pending_id |-> data[Len(data)], action |-> SubSeq(data, 3, Len(data) - 1)]

\* pending_id, action = payload.split("_", 1), the payload being the fields
\* after admin_pay_ / admin_tech_: the id is the first field, the action is
\* all that follows the first "_"
SplitPayload(data) ==
    [pending_id |-> data[3], action |-> SubSeq(data, 4, Len(data))]

handle_buttons(e, uid, data, fails) ==
    LET s   == help_state
        key == ToString(uid)
    IN
    IF data = <<"issue", "payment">> THEN
        /\ Out(e, <<"choose_service">>, <<>>)
        /\ UNCHANGED <<help_state, disk, admin_sessions, now, tasks>>
    ELSE IF Len(data) >= 2 /\ data[1] = "payment" THEN
        /\ help_state' = [s EXCEPT !.users =
               SetFlow(@, key, "awaiting_payment")]
        /\ save_state(help_state')
        /\ Out(e, <<"send_screenshot">>, <<>>)
        /\ UNCHANGED <<admin_sessions, now, tasks>>
    ELSE IF data = <<"issue", "tech">> THEN
        /\ help_state' = [s EXCEPT !.users =
               SetFlow(@, key, "awaiting_tech")]
        /\ save_state(help_state')
        /\ Out(e, <<"describe_issue">>, <<>>)
        /\ UNCHANGED <<admin_sessions, now, tasks>>
    ELSE IF data = <<"issue", "other">> THEN
        /\ Out(e, <<"contact_other">>, <<>>)
        /\ UNCHANGED <<help_state, disk, admin_sessions, now, tasks>>
    ELSE IF Len(data) >= 2 /\ data[1] = "adminpanel" /\ uid \notin ADMIN_IDS THEN
        /\ Out(e, <<"unauthorized">>, <<>>)
        /\ UNCHANGED <<help_state, disk, admin_sessions, now, tasks>>
    ELSE IF Len(data) >= 2 /\ data[1] = "adminpanel" /\ Tail(data) \in PanelModes THEN
        /\ admin_sessions' = StartSession(uid, ModeOf(Tail(data)))
        /\ Out(e, <<"send_payload">>, <<>>)
        /\ UNCHANGED <<help_state, disk, now, tasks>>
    ELSE IF Len(data) >= 2 /\ data[1] = "adminpanel" /\ Tail(data) = <<"insights">> THEN
        /\ Out(e, <<"insights">>, <<>>)
        /\ UNCHANGED <<help_state, disk, admin_sessions, now, tasks>>
    ELSE IF Len(data) >= 2 /\ data[1] = "adminpanel" /\ Tail(data) = <<"get", "links">> THEN
        /\ Out(e, <<"links">>, <<>>)
        /\ UNCHANGED <<help_state, disk, admin_sessions, now, tasks>>
    ELSE IF Len(data) >= 3 /\ data[1] = "admin" /\ data[2] = "pay" THEN
        IF Len(data) = 3 THEN
            /\ Out(e, <<"invalid_payload">>, <<>>)
            /\ UNCHANGED <<help_state, disk, admin_sessions, now, tasks>>
        ELSE handle_admin_payment_action(e, uid, SplitPayload(data).pending_id,
                                         SplitPayload(data).action, fails)
    ELSE IF Len(data) >= 3 /\ data[1] = "admin" /\ data[2] = "tech" THEN
        IF Len(data) = 3 THEN
            /\ Out(e, <<"invalid_payload">>, <<>>)
            /\ UNCHANGED <<help_state, disk, admin_sessions, now, tasks>>
        ELSE handle_admin_tech_action(e, uid, SplitPayload(data).pending_id,
                                      SplitPayload(data).action, fails)
    ELSE
        \* no branch matches: the press is acknowledged and nothing else
        /\ Out(e, <<"ack">>, <<>>)
        /\ UNCHANGED <<help_state, disk, admin_sessions, now, tasks>>

\* the pattern ^admin_quick_cancel_ of the quick-cancel handler
IsQuickCancel(data) ==
    Len(data) >= 4 /\ SubSeq(data, 1, 3) = <<"admin", "quick", "cancel">>

\* parts = data.split("_"); int(parts[-1]) if there are four parts or more
CancelSubject(data) == IF Len(data) >= 4 THEN ParseInt(data[Len(data)]) ELSE NoId

handle_quick_cancel(e, uid, data) ==
    LET admin_id == CancelSubject(data) IN
    IF admin_id = NoId \/ admin_id \notin ADMIN_IDS THEN
        /\ Out(e, <<"unauthorized">>, <<>>)
        /\ UNCHANGED <<help_state, disk, admin_sessions, now, tasks>>
    ELSE
        \* the session popped is that of the id in the token
        /\ admin_sessions' = PopSession(admin_id)
        /\ Out(e, <<"quick_reply_cancelled">>, <<>>)
        /\ UNCHANGED <<help_state, disk, now, tasks>>

\* ------------------------------------------------------------------ messages
\* the end of a handler: the state it leaves in memory, whether its last
\* mutation was followed by save_state, the sessions, the answer, the sends
Done(e, r, msgs, s, saved, sessions) ==
    /\ help_state' = s
    /\ disk' = (IF saved THEN s ELSE disk)
    /\ admin_sessions' = sessions
    /\ now' = now
    /\ tasks' = tasks
    /\ Out(e, r, msgs)

\* a fan-out that ends at the first call that raises
Fanout_abort(recipients, kind, body, fails) ==
    [i \in 1..Attempts(Len(recipients), fails) |->
        Msg(recipients[i], kind, body, i \notin fails)]

\* one send_message per recipient, each in its own try/except: call i is
\* delivered unless it raises, and the loop goes on either way
Fanout(recipients, kind, body, fails) ==
    [i \in 1..Len(recipients) |-> Msg(recipients[i], kind, body, i \notin fails)]

\* the number of calls of a fan-out that were delivered
Delivered(msgs) == Cardinality({i \in DOMAIN msgs : msgs[i].ok})

\* a submission that is counted twice
Submit_twice(s, key, pending_id, type, counter) ==
    [s EXCEPT !.pending[pending_id] = [type |-> type, user_id |-> key],
              !.counters[counter] = @ + 2,
              !.users[key].last_action = None]

\* a submission that leaves the user in the awaiting state
Submit_stuck(s, key, pending_id, type, counter) ==
    [s EXCEPT !.pending[pending_id] = [type |-> type, user_id |-> key],
              !.counters[counter] = @ + 1]

\* s["pending"][pending_id] = item, the counter incremented, then
\* user_rec["last_action"] = None
\* (an existing ticket under the same id is overwritten)
Submit(s, key, pending_id, type, counter) ==
    [s EXCEPT !.pending[pending_id] = [type |-> type, user_id |-> key],
              !.counters[counter] = @ + 1,
              !.users[key].last_action = None]

\* str(int(time.time() * 1000))
NewPendingId == ToString(now)

photo_or_doc_handler(e, uid, fails) ==
    LET s        == help_state
        key      == ToString(uid)
        user_rec == s.users[key]
        admins   == SetToSeq(ADMIN_IDS)
    IN
    IF user_rec.last_action \notin {"awaiting_payment", "awaiting_tech"} THEN
        Done(e, <<"choose_first">>, <<>>, s, FALSE, admin_sessions)
    ELSE IF user_rec.last_action = "awaiting_payment" THEN
        Done(e, <<"thanks_payment">>,
             AfterSave(Fanout(admins, "payment_ticket", <<NewPendingId>>, fails)),
             Submit(s, key, NewPendingId, "payment", "payment_submitted"),
             TRUE, admin_sessions)
    ELSE
        Done(e, <<"thanks_tech">>,
             AfterSave(Fanout(admins, "tech_ticket", <<NewPendingId>>, fails)),
             Submit(s, key, NewPendingId, "tech", "tech_submitted"),
             TRUE, admin_sessions)

\* an update: the handler it is dispatched to, its sender, its text or token,
\* and the session the sender has when it arrives
Event(handler, uid, arg) ==
    [handler |-> handler, uid |-> uid, arg |-> arg, session |-> GetSession(uid)]

\* the branch of text_handler taken while the admin has a session
session_text(e, uid, text, fails, session) ==
    LET s      == help_state
        action == session.action
    IN
    IF action = "quick_reply" THEN
        IF session.target_user = NoId THEN
            Done(e, <<"no_target">>, <<>>, s, FALSE, PopSession(uid))
        ELSE
            \* the ticket is popped after the try/except, delivered or not
            LET had == GetTicket(s.pending, session.pending_id) # NoTicket IN
            Done(e, IF 1 \in fails THEN <<"reply_failed">> ELSE <<"reply_sent">>,
                 <<Msg(session.target_user, "admin_reply", text, 1 \notin fails)>>,
                 [s EXCEPT !.pending = PopTicket(@, session.pending_id)],
                 had, PopSession(uid))
    ELSE IF action = "set_vip" THEN
        Done(e, <<"vip_saved">>, <<>>, [s EXCEPT !.vip_link = Strip(text)], TRUE,
             PopSession(uid))
    ELSE IF action = "set_dark" THEN
        Done(e, <<"dark_saved">>, <<>>, [s EXCEPT !.dark_link = Strip(text)], TRUE,
             PopSession(uid))
    ELSE IF action = "set_both" THEN
        LET parts == Split(Strip(text)) IN
        IF Len(parts) >= 2 THEN
            Done(e, <<"both_saved">>, <<>>,
                 [s EXCEPT !.vip_link = Strip(parts[1]), !.dark_link = Strip(parts[2])],
                 TRUE, PopSession(uid))
        ELSE
            Done(e, <<"need_two_urls">>, <<>>, s, FALSE, admin_sessions)
    ELSE
        \* action = "broadcast"
        LET users == SetToSeq({ParseInt(k) : k \in Keys(s.users, NoUser)})
            msgs  == Fanout(users, "broadcast", text, fails)
        IN Done(e, <<"broadcast_sent", ToString(Delivered(msgs))>>, msgs, s, FALSE,
                PopSession(uid))

\* the admin commands of text_handler, s being the state after setdefault
command_text(e, uid, text, fails, s) ==
    LET admin == uid \in ADMIN_IDS IN
    IF StartsWith(text, "/reply") /\ admin THEN
        LET parts == SplitMax(text, 2) IN
        IF Len(parts) < 3 THEN
            Done(e, <<"usage">>, <<>>, s, FALSE, admin_sessions)
        ELSE IF ParseIntWord(parts[2]) = NoId THEN
            Done(e, <<"invalid_user_id">>, <<>>, s, FALSE, admin_sessions)
        ELSE
            Done(e, IF 1 \in fails THEN <<"reply_failed">> ELSE <<"reply_sent">>,
                 <<Msg(ParseIntWord(parts[2]), "admin_reply", parts[3], 1 \notin fails)>>,
                 s, FALSE, admin_sessions)
    ELSE IF StartsWith(text, "/set_vip_link") /\ admin THEN
        LET parts == SplitMax(text, 1) IN
        IF Len(parts) < 2 THEN
            Done(e, <<"usage">>, <<>>, s, FALSE, admin_sessions)
        ELSE
            Done(e, <<"vip_saved">>, <<>>, [s EXCEPT !.vip_link = Strip(parts[2])], TRUE,
                 admin_sessions)
    ELSE IF StartsWith(text, "/set_dark_link") /\ admin THEN
        LET parts == SplitMax(text, 1) IN
        IF Len(parts) < 2 THEN
            Done(e, <<"usage">>, <<>>, s, FALSE, admin_sessions)
        ELSE
            Done(e, <<"dark_saved">>, <<>>, [s EXCEPT !.dark_link = Strip(parts[2])], TRUE,
                 admin_sessions)
    ELSE IF StartsWith(text, "/set_both_link") /\ admin THEN
        LET parts == SplitMax(text, 2) IN
        IF Len(parts) < 3 THEN
            Done(e, <<"usage">>, <<>>, s, FALSE, admin_sessions)
        ELSE
            Done(e, <<"both_saved">>, <<>>,
                 [s EXCEPT !.vip_link = Strip(parts[2]), !.dark_link = Strip(parts[3])],
                 TRUE, admin_sessions)
    ELSE IF StartsWith(text, "/get_links") /\ admin THEN
        Done(e, <<"links">>, <<>>, s, FALSE, admin_sessions)
    ELSE IF StartsWith(text, "/admin") /\ admin THEN
        \* send_admin_panel: one send_message in a try/except
        Done(e, <<>>, Fanout(<<uid>>, "panel", <<>>, fails), s, FALSE, admin_sessions)
    ELSE IF StartsWith(text, "/broadcast") /\ admin THEN
        LET parts == SplitMax(text, 1)
            users == SetToSeq({ParseInt(k) : k \in Keys(s.users, NoUser)})
            msgs  == Fanout(users, "broadcast", parts[2], fails)
        IN
        IF Len(parts) < 2 THEN
            Done(e, <<"usage">>, <<>>, s, FALSE, admin_sessions)
        ELSE
            Done(e, <<"broadcast_sent", ToString(Delivered(msgs))>>, msgs, s, FALSE, admin_sessions)
    ELSE IF StartsWith(text, "/insights") /\ admin THEN
        Done(e, <<"insights">>, <<>>, s, FALSE, admin_sessions)
    ELSE
        Done(e, <<"fallback">>, <<>>, s, FALSE, admin_sessions)

\* a check that only knows the quick-reply session
InSession_quick(uid, session) == session.action = "quick_reply" /\ uid \in ADMIN_IDS

\* if admin_session and uid in ADMIN_IDS
InSession(uid, session) == session # NoSession /\ uid \in ADMIN_IDS

text_handler(e, uid, text, fails) ==
    LET key      == ToString(uid)
        session  == GetSession(uid)
        \* user_rec = s["users"].setdefault(str(uid), {})
        s        == [help_state EXCEPT !.users = SetDefaultUser(@, key)]
        user_rec == s.users[key]
    IN
    IF Lower(Strip(text)) = <<"/cancel">> /\ uid \in ADMIN_IDS THEN
        Done(e, IF session # NoSession THEN <<"session_cancelled">> ELSE <<"no_active_session">>,
             <<>>, help_state, FALSE, PopSession(uid))
    ELSE IF InSession(uid, session) THEN
        session_text(e, uid, text, fails, session)
    ELSE IF user_rec.last_action = None /\ ~StartsWithSlash(text) THEN
        Done(e, <<"choose_first">>, <<>>, s, FALSE, admin_sessions)
    ELSE IF user_rec.last_action = "awaiting_tech" THEN
        Done(e, <<"thanks_tech">>,
             AfterSave(Fanout(SetToSeq(ADMIN_IDS), "tech_ticket", <<NewPendingId>>, fails)),
             Submit(s, key, NewPendingId, "tech", "tech_submitted"),
             TRUE, admin_sessions)
    ELSE
        command_text(e, uid, text, fails, s)

\* ------------------------------------------------------------------ updates
\* the counters stay within the bounds of the model
Bounded ==
    /\ help_state'.counters.payment_submitted + help_state'.counters.tech_submitted <= MaxCount
    /\ help_state'.counters.links_sent <= MaxCount

\* which send_message calls of a handler raise: a handler makes at most n
FailSets(n) == SUBSET (1..n)

\* an upper bound of the send_message calls text_handler makes for a text
TextSends(uid, text) ==
    IF GetSession(uid).action = "quick_reply" THEN 1
    ELSE IF GetSession(uid).action = "broadcast" \/ StartsWith(text, "/broadcast")
         THEN Cardinality(Ids)
    ELSE IF help_state.users[ToString(uid)].last_action = "awaiting_tech"
         THEN Cardinality(ADMIN_IDS)
    ELSE IF StartsWith(text, "/reply") \/ StartsWith(text, "/admin") THEN 1
    ELSE 0

\* an upper bound of the send_message calls handle_buttons makes for a token
ButtonSends(data) ==
    IF Len(data) >= 4 /\ data[1] = "admin" /\ data[2] = "pay"
    THEN (IF data[4] = "both" THEN 2 ELSE 1)
    ELSE IF Len(data) >= 4 /\ data[1] = "admin" /\ data[2] = "tech" /\ data[4] = "ignore"
         THEN 1
    ELSE 0

\* CommandHandler("start", start): the first word is /start, in any case
IsStartCommand(text) == text # <<>> /\ Lower(FirstWord(text)) = <<"/start">>

StartCommand(uid, text) ==
    /\ ev = Idle
    /\ IsStartCommand(text)
    /\ start(Event("start", uid, text), uid)

TextMessage(uid, text, fails) ==
    /\ ev = Idle
    /\ ~IsStartCommand(text)
    /\ text_handler(Event("text_handler", uid, text), uid, text, fails)
    /\ Bounded

MediaMessage(uid, fails) ==
    /\ ev = Idle
    /\ photo_or_doc_handler(Event("photo_or_doc_handler", uid, <<>>), uid, fails)
    /\ Bounded

QuickCancelPress(uid, data) ==
    /\ ev = Idle
    /\ IsQuickCancel(data)
    /\ handle_quick_cancel(Event("handle_quick_cancel", uid, data), uid, data)

ButtonPress(uid, data, fails) ==
    /\ ev = Idle
    /\ ~IsQuickCancel(data)
    /\ handle_buttons(Event("handle_buttons", uid, data), uid, data, fails)
    /\ Bounded

\* the updates of the senders S with the texts T and the button tokens K
NextOn(S, T, K) ==
    \/ Tick
    \/ Return
    \/ \E uid \in S, text \in T : StartCommand(uid, text)
    \/ \E uid \in S, text \in T :
           \E fails \in FailSets(TextSends(uid, text)) : TextMessage(uid, text, fails)
    \/ \E uid \in S : \E fails \in FailSets(Cardinality(ADMIN_IDS)) : MediaMessage(uid, fails)
    \/ \E uid \in S, data \in K : QuickCancelPress(uid, data)
    \/ \E uid \in S, data \in K :
           \E fails \in FailSets(ButtonSends(data)) : ButtonPress(uid, data, fails)

L1 == <<"L1">>
L2 == <<"L2">>

\* the tokens of the buttons the bot builds
UserTokens == {<<"issue", "payment">>, <<"payment", "vip">>, <<"issue", "tech">>,
               <<"issue", "other">>}

PanelTokens == {<<"adminpanel">> \o a : a \in PanelModes \cup {<<"insights">>, <<"get", "links">>}}

\* f"admin_pay_{pending_id}_{action}": its "_"-separated fields
EncodePay(pending_id, action) == <<"admin", "pay", pending_id, action>>

\* f"admin_tech_{pending_id}_{action}"
EncodeTech(pending_id, action) == <<"admin", "tech", pending_id, action>>

\* f"admin_quick_cancel_{admin_id}"
EncodeCancel(admin_id) == <<"admin", "quick", "cancel", ToString(admin_id)>>

PayActions == {"vip", "dark", "both", "decline"}

TechActions == {"reply", "ignore"}

PayTokens == {EncodePay(id, a) : id \in TicketIds, a \in PayActions}

TechTokens == {EncodeTech(id, a) : id \in TicketIds, a \in TechActions}

CancelTokens == {EncodeCancel(a) : a \in Ids}

\* what the handlers read out of a token: the domain is the handler or branch
\* that takes it, the ticket id and the action are those of the payload
\* split, the subject is the admin id of a quick-cancel token
DecodeToken(data) ==
    IF IsQuickCancel(data) THEN
        [domain |-> "quick_cancel", pending_id |-> None, action |-> <<>>,
         subject |-> CancelSubject(data)]
    ELSE IF Len(data) >= 4 /\ data[1] = "admin" /\ data[2] \in {"pay", "tech"} THEN
        [domain |-> data[2], pending_id |-> SplitPayload(data).pending_id,
         action |-> SplitPayload(data).action, subject |-> NoId]
    ELSE
        [domain |-> None, pending_id |-> None, action |-> <<>>, subject |-> NoId]

\* ---- an approval step by step: the handler is a coroutine that is suspended
\* at each "await context.bot.send_message"

\* updates handled concurrently (concurrent_updates switched on)
Sequential_concurrent == TRUE

\* the application is built without concurrent_updates and the handlers are
\* registered blocking: an update is taken only when the handler of the
\* update before it has returned
Sequential == ev = Idle

\* handle_admin_payment_action up to its first send_message: the ticket and
\* the links are read
ApproveRead(admin_id, pending_id, action) ==
    LET e         == Event("handle_buttons", admin_id, EncodePay(pending_id, action))
        pending   == GetTicket(help_state.pending, pending_id)
        send_msgs == ApprovalLinks(<<action>>, help_state.vip_link, help_state.dark_link)
    IN
    /\ Sequential
    /\ tasks[admin_id] = NoTask
    /\ IF pending = NoTicket THEN
           /\ Out(e, <<"not_found">>, outbox)
           /\ UNCHANGED <<help_state, disk, admin_sessions, now, tasks>>
       ELSE IF send_msgs = <<>> THEN
           /\ Out(e, <<"no_link">>, outbox)
           /\ UNCHANGED <<help_state, disk, admin_sessions, now, tasks>>
       ELSE
           /\ tasks' = [tasks EXCEPT ![admin_id] =
                  [pending_id |-> pending_id, user_id |-> ParseInt(pending.user_id),
                   todo |-> send_msgs]]
           /\ Out(e, <<"awaiting_send">>, outbox)
           /\ UNCHANGED <<help_state, disk, admin_sessions, now>>

\* one turn of the loop: the send_message awaited returns and links_sent is
\* incremented, or it raises and the handler is aborted
ApproveSend(admin_id, ok) ==
    LET t == tasks[admin_id]
        m == Msg(t.user_id, "link", Head(t.todo), ok)
    IN
    /\ t.todo # <<>>
    /\ IF ok THEN
           /\ help_state' = CountLinks(help_state, 1)
           /\ tasks' = [tasks EXCEPT ![admin_id].todo = Tail(@)]
           /\ Out(ev, reply, Append(outbox, m))
           /\ UNCHANGED <<disk, admin_sessions, now>>
       ELSE
           /\ tasks' = [tasks EXCEPT ![admin_id] = NoTask]
           /\ Out(ev, <<"raised">>, Append(outbox, m))
           /\ UNCHANGED <<help_state, disk, admin_sessions, now>>
    /\ Bounded

\* after the loop: the ticket is popped and the state is saved
ApproveFinish(admin_id) ==
    LET t == tasks[admin_id] IN
    /\ t # NoTask
    /\ t.todo = <<>>
    /\ help_state' = [help_state EXCEPT !.pending = PopTicket(@, t.pending_id)]
    /\ save_state(help_state')
    /\ tasks' = [tasks EXCEPT ![admin_id] = NoTask]
    /\ Out(ev, <<"approved">>, outbox)
    /\ UNCHANGED <<admin_sessions, now>>

AwaitSenders == {1, 3}

AwaitTexts ==
    {<<"/start">>, <<"hi">>, <<"/set_vip_link", WS, "L1">>, <<"/set_dark_link", WS, "L2">>}

AwaitButtons == {<<"payment", "vip">>, <<"admin", "quick", "cancel", "1">>}

NextAwait ==
    \/ NextOn(AwaitSenders, AwaitTexts, AwaitButtons)
    \/ \E admin_id \in ADMIN_IDS, pending_id \in TicketIds, action \in {"vip", "dark", "both"} :
           ApproveRead(admin_id, pending_id, action)
    \/ \E admin_id \in ADMIN_IDS, ok \in BOOLEAN : ApproveSend(admin_id, ok)
    \/ \E admin_id \in ADMIN_IDS : ApproveFinish(admin_id)

SpecAwait == Init /\ [][NextAwait]_vars

\* ---- payment tickets: submission, approval, decline
PaySenders == {1, 3}

PayTexts ==
    {<<"/start">>, <<"hi">>, <<"/set_vip_link", WS, "L1">>, <<"/set_dark_link", WS, "L2">>}

PayButtons == {<<"payment", "vip">>, <<"admin", "quick", "cancel", "1">>} \cup PayTokens

NextPay == NextOn(PaySenders, PayTexts, PayButtons)

SpecPay == Init /\ [][NextPay]_vars

\* the same behaviours, with the resolved tickets and the delivered links recorded
SpecPayHist == InitHist /\ [][NextPay]_vars

\* ---- technical tickets: submission, ignore, quick reply, cancel
TechSenders == {1, 3}

TechTexts == {<<"/start">>, <<"hi">>, <<"/cancel">>}

TechButtons == {<<"issue", "tech">>, <<"admin", "quick", "cancel", "1">>} \cup TechTokens

NextTech == NextOn(TechSenders, TechTexts, TechButtons)

SpecTech == Init /\ [][NextTech]_vars

\* ---- admin sessions: panel modes, quick reply, payloads, cancel
SessionSenders == {1}

SessionTexts ==
    {<<"/start">>, <<"/cancel">>, <<"/CANCEL">>, <<"hi">>, L1 \o <<WS>> \o L2,
     <<"/set_dark_link", WS, "L2">>}

SessionButtons ==
    {<<"adminpanel">> \o a : a \in PanelModes} \cup
    {<<"issue", "tech">>, <<"admin", "tech", "1", "reply">>} \cup
    {<<"admin", "quick", "cancel", ToString(a)>> : a \in SessionSenders}

NextSession == NextOn(SessionSenders, SessionTexts, SessionButtons)

SpecSession == Init /\ [][NextSession]_vars

\* ---- user flows: selection, submission, fan-out to the admins, broadcast
FlowSenders == {1, 3}

FlowTexts == {<<"/start">>, <<"hi">>, <<"/broadcast", WS, "hi">>}

FlowButtons ==
    {<<"payment", "vip">>, <<"issue", "tech">>, <<"adminpanel", "broadcast">>,
     <<"admin", "quick", "cancel", "1">>}

NextFlow == NextOn(FlowSenders, FlowTexts, FlowButtons)

SpecFlow == Init /\ [][NextFlow]_vars

\* ---- button tokens the bot does not build
MalformedTokens ==
    {<<"payment", "zz">>, <<"adminpanel", "zz">>, <<"zz">>,
     <<"admin", "pay", "1">>, <<"admin", "pay", "1", "zz">>,
     <<"admin", "tech", "1">>, <<"admin", "tech", "1", "zz">>,
     <<"admin", "quick", "cancel", "zz">>}

TokenSenders == {1, 3}

TokenTexts == {<<"/start">>, <<"hi">>}

TokenButtons == MalformedTokens \cup {<<"issue", "tech">>, <<"payment", "vip">>}

NextToken == NextOn(TokenSenders, TokenTexts, TokenButtons)

SpecToken == Init /\ [][NextToken]_vars

\* ---- the process killed inside a save, and started again
CrashSenders == {3}

CrashTexts == {<<"/start">>, <<"hi">>}

CrashButtons == {<<"issue", "tech">>, <<"admin", "quick", "cancel", "1">>}

NextCrash ==
    \/ NextOn(CrashSenders, CrashTexts, CrashButtons)
    \/ \E uid \in CrashSenders : KillInSave(uid)
    \/ main

SpecCrash == Init /\ [][NextCrash]_vars

\* ---- an admin as a user of the help flows: commands in every flow state
AdminFlowSenders == {1}

AdminFlowTexts ==
    {<<"/start">>, <<"hi">>, <<"/set_vip_link", WS, "L1">>, <<"/set_vip_link", WS, "L2">>}

AdminFlowButtons ==
    {<<"issue", "tech">>, <<"payment", "vip">>, <<"adminpanel", "set", "dark">>,
     <<"admin", "quick", "cancel", "1">>}

NextAdminFlow == NextOn(AdminFlowSenders, AdminFlowTexts, AdminFlowButtons)

SpecAdminFlow == Init /\ [][NextAdminFlow]_vars

\* ------------------------------------------------------------------ claims
IsCancel(text) == Lower(Strip(text)) = <<"/cancel">>

\* the update e is a press of the payment button `a` of ticket id
PayPress(e, id, a) == e.handler = "handle_buttons" /\ e.arg = <<"admin", "pay", id, a>>

\* the update e is a press of the tech button `a` of ticket id
TechPress(e, id, a) == e.handler = "handle_buttons" /\ e.arg = <<"admin", "tech", id, a>>

\* the update e is a text that the admin's quick-reply session bound to id forwards
QuickReplyText(e, id) ==
    /\ e.handler = "text_handler"
    /\ ~IsCancel(e.arg)
    /\ e.session.action = "quick_reply"
    /\ e.session.pending_id = id

\* an admin's resolution event for ticket id
ResolutionEvent(e, id) ==
    /\ e.uid \in ADMIN_IDS
    /\ \/ \E a \in {"vip", "dark", "both", "decline"} : PayPress(e, id, a)
       \/ TechPress(e, id, "ignore")
       \/ QuickReplyText(e, id)

\* the messages of a handler that reached their recipient
DeliveredTo(msgs) == {msgs[i].to : i \in {j \in DOMAIN msgs : msgs[j].ok}}

\* C1: a resolution event (payment approve/decline, tech ignore, quick-reply
\* text) for a ticket id that is no longer pending is answered as not-found
\* and sends no message.
C1_ResolvedTicketIsNotFound ==
    [][\A id \in TicketIds :
          (ResolutionEvent(ev', id) /\ help_state.pending[id] = NoTicket)
          => (reply' = <<"not_found">> /\ outbox' = <<>>)]_vars

\* C2: the id given to a newly created ticket is not the id of a ticket that
\* is pending, so that no pending ticket is overwritten, also when two
\* tickets are created at the same clock reading.
C2_NewTicketIdIsFresh ==
    [][(reply' \in {<<"thanks_tech">>, <<"thanks_payment">>})
       => help_state.pending[outbox'[1].body[1]] = NoTicket]_vars

\* no link is configured for the approve action a
NoLinkFor(a, s) ==
    CASE a = "vip"  -> s.vip_link = <<>>
      [] a = "dark" -> s.dark_link = <<>>
      [] a = "both" -> s.vip_link = <<>> /\ s.dark_link = <<>>

\* C3: an approve press (vip, dark, both) by an admin on a pending payment
\* ticket with no link configured for that action is answered "no link
\* configured", sends nothing and changes nothing: the ticket stays pending
\* and links_sent keeps its value.
C3_ApproveWithoutLinkIsNoOp ==
    [][\A id \in TicketIds, a \in {"vip", "dark", "both"} :
          (/\ PayPress(ev', id, a)
           /\ ev'.uid \in ADMIN_IDS
           /\ help_state.pending[id].type = "payment"
           /\ NoLinkFor(a, help_state))
          => (/\ reply' = <<"no_link">>
              /\ outbox' = <<>>
              /\ help_state'.pending[id] = help_state.pending[id]
              /\ help_state'.counters.links_sent = help_state.counters.links_sent
              /\ help_state' = help_state)]_vars

\* C3 happens: approve-vip was pressed on a pending payment ticket while only
\* the dark link is configured.
C3_Witness ==
    /\ ev.handler = "handle_buttons"
    /\ ev.uid \in ADMIN_IDS
    /\ Len(ev.arg) = 4 /\ ev.arg[2] = "pay" /\ ev.arg[4] = "vip"
    /\ GetTicket(help_state.pending, ev.arg[3]).type = "payment"
    /\ help_state.vip_link = <<>> /\ help_state.dark_link # <<>>
    /\ reply = <<"no_link">>

\* C4: a decline press by an admin on a pending payment ticket removes the
\* ticket from pending, whether or not the user can be notified.
C4_DeclineAlwaysResolves ==
    [][\A id \in TicketIds :
          (/\ PayPress(ev', id, "decline")
           /\ ev'.uid \in ADMIN_IDS
           /\ help_state.pending[id].type = "payment")
          => help_state'.pending[id] = NoTicket]_vars

\* the link messages of a handler that were delivered
LinkMessages(msgs) ==
    Cardinality({i \in DOMAIN msgs : msgs[i].kind = "link" /\ msgs[i].ok})

\* the links an approve action sends when every delivery succeeds
ConfiguredFor(a, s) ==
    CASE a = "vip"  -> IF s.vip_link # <<>> THEN 1 ELSE 0
      [] a = "dark" -> IF s.dark_link # <<>> THEN 1 ELSE 0
      [] a = "both" -> (IF s.vip_link # <<>> THEN 1 ELSE 0)
                        + (IF s.dark_link # <<>> THEN 1 ELSE 0)

\* C5: every step changes links_sent by exactly the number of link messages
\* delivered in it; a completed approval raises it by the number of links
\* configured for its action (both with two links: two, both with one link:
\* one, vip or dark with its link: one).
C5_LinksSentCountsLinkMessages ==
    [][/\ help_state'.counters.links_sent
            = help_state.counters.links_sent + LinkMessages(outbox')
       /\ \A id \in TicketIds, a \in {"vip", "dark", "both"} :
             (PayPress(ev', id, a) /\ reply' = <<"approved">>)
             => help_state'.counters.links_sent
                    = help_state.counters.links_sent + ConfiguredFor(a, help_state)]_vars

\* C5 happens: approve-both with both links configured has sent two link
\* messages and links_sent is two.
C5_Witness ==
    /\ ev.handler = "handle_buttons"
    /\ Len(ev.arg) = 4 /\ ev.arg[2] = "pay" /\ ev.arg[4] = "both"
    /\ reply = <<"approved">>
    /\ LinkMessages(outbox) = 2
    /\ help_state.counters.links_sent = 2

\* C6: the text of a quick-reply session whose delivery to the user fails
\* leaves the bound ticket in pending.
C6_UndeliveredReplyKeepsTicket ==
    [][\A id \in TicketIds :
          (/\ QuickReplyText(ev', id)
           /\ ev'.uid \in ADMIN_IDS
           /\ help_state.pending[id] # NoTicket
           /\ DeliveredTo(outbox') = {})
          => help_state'.pending[id] = help_state.pending[id]]_vars

\* C7: a press of "reply" by an admin on a pending tech ticket keeps the
\* ticket pending, sends nothing and gives that admin the session
\* quick_reply bound to the ticket's id and the ticket's user.
C7_ReplyOpensQuickReply ==
    [][\A id \in TicketIds :
          (/\ TechPress(ev', id, "reply")
           /\ ev'.uid \in ADMIN_IDS
           /\ help_state.pending[id].type = "tech")
          => (/\ help_state' = help_state
              /\ outbox' = <<>>
              /\ admin_sessions'[ev'.uid].action = "quick_reply"
              /\ admin_sessions'[ev'.uid].pending_id = id
              /\ ToString(admin_sessions'[ev'.uid].target_user)
                     = help_state.pending[id].user_id)]_vars

\* C7 happens: an admin has pressed "reply" on the pending tech ticket of
\* another user.
C7_Witness ==
    /\ ev.handler = "handle_buttons"
    /\ ev.uid \in ADMIN_IDS
    /\ Len(ev.arg) = 4 /\ ev.arg[2] = "tech" /\ ev.arg[4] = "reply"
    /\ GetTicket(help_state.pending, ev.arg[3]).type = "tech"
    /\ GetTicket(help_state.pending, ev.arg[3]).user_id # ToString(ev.uid)
    /\ admin_sessions[ev.uid].action = "quick_reply"
    /\ reply = <<"quick_reply_mode">>

\* the update e is the admin's own cancel: /cancel or the cancel button
\* that carries the admin's id
CancelEvent(e) ==
    /\ e.uid \in ADMIN_IDS
    /\ \/ e.handler = "text_handler" /\ IsCancel(e.arg)
       \/ /\ e.handler = "handle_quick_cancel"
          /\ e.arg = <<"admin", "quick", "cancel", ToString(e.uid)>>

\* C8: when an admin in a quick-reply session cancels it, the session is
\* cleared and nothing else changes: tickets, counters, links and users
\* keep their values and no message is sent.
C8_CancelKeepsTicket ==
    [][(CancelEvent(ev') /\ ev'.session.action = "quick_reply")
       => (/\ admin_sessions'[ev'.uid] = NoSession
           /\ help_state' = help_state
           /\ disk' = disk
           /\ outbox' = <<>>)]_vars

\* C8 happens: an admin in a quick-reply session has sent /cancel and the
\* bound ticket is pending.
C8_Witness ==
    /\ ev.handler = "text_handler"
    /\ IsCancel(ev.arg)
    /\ ev.session.action = "quick_reply"
    /\ GetTicket(help_state.pending, ev.session.pending_id) # NoTicket
    /\ admin_sessions[ev.uid] = NoSession
    /\ reply = <<"session_cancelled">>

\* the recorded users, as chat ids
RecordedUsers(s) == {ParseInt(k) : k \in Keys(s.users, NoUser)}

\* the text is taken as the payload of the session sess and as nothing else:
\* no ticket is created, no user record and no counter changes, and the
\* links, the messages sent and the session are those of the session's action
Consumed(sess, uid, text) ==
    LET s == help_state
        t == help_state'
        linksKept == t.vip_link = s.vip_link /\ t.dark_link = s.dark_link
        ended == admin_sessions'[uid] = NoSession
    IN
    /\ t.users = s.users
    /\ t.counters = s.counters
    /\ \A id \in TicketIds : t.pending[id] \in {s.pending[id], NoTicket}
    /\ CASE sess.action = "set_vip" ->
              /\ t.vip_link = Strip(text) /\ t.dark_link = s.dark_link
              /\ outbox' = <<>> /\ ended
         [] sess.action = "set_dark" ->
              /\ t.dark_link = Strip(text) /\ t.vip_link = s.vip_link
              /\ outbox' = <<>> /\ ended
         [] sess.action = "set_both" ->
              /\ outbox' = <<>>
              /\ IF Len(Split(text)) >= 2
                 THEN /\ t.vip_link = Split(text)[1] /\ t.dark_link = Split(text)[2]
                      /\ ended
                 ELSE linksKept /\ admin_sessions' = admin_sessions
         [] sess.action = "broadcast" ->
              /\ linksKept /\ ended
              /\ {outbox'[i].to : i \in DOMAIN outbox'} = RecordedUsers(s)
              /\ \A i \in DOMAIN outbox' :
                    outbox'[i].kind = "broadcast" /\ outbox'[i].body = text
         [] sess.action = "quick_reply" ->
              /\ linksKept /\ ended
              /\ Len(outbox') = 1
              /\ outbox'[1].to = sess.target_user
              /\ outbox'[1].kind = "admin_reply" /\ outbox'[1].body = text

\* the cancel directive clears the session and changes nothing else
Cancelled(uid) ==
    /\ admin_sessions'[uid] = NoSession
    /\ help_state' = help_state
    /\ outbox' = <<>>

\* C9 as claimed: while an admin has a session, every text of that admin,
\* a command included, is consumed as the session's payload; only the cancel
\* directive is not, and it clears the session.
C9_SessionConsumesEveryText ==
    [][(/\ ev'.handler \in {"start", "text_handler"}
        /\ ev'.uid \in ADMIN_IDS
        /\ ev'.session # NoSession)
       => IF IsCancel(ev'.arg) THEN Cancelled(ev'.uid)
          ELSE Consumed(ev'.session, ev'.uid, ev'.arg)]_vars

\* C9 amended: while an admin has a session, every text of that admin other
\* than the /start command, a command included, is consumed as the session's
\* payload; the cancel directive clears the session in every session state;
\* /start goes to the start handler and leaves the session as it is.
C9_SessionConsumesTextButStart ==
    [][(ev'.uid \in ADMIN_IDS /\ ev'.session # NoSession)
       => /\ ev'.handler = "text_handler"
             => IF IsCancel(ev'.arg) THEN Cancelled(ev'.uid)
                ELSE Consumed(ev'.session, ev'.uid, ev'.arg)
          /\ ev'.handler = "start"
             => /\ admin_sessions' = admin_sessions
                /\ help_state'.vip_link = help_state.vip_link
                /\ help_state'.dark_link = help_state.dark_link]_vars

\* C9 happens: an admin in a set_vip session has sent the text of the
\* /set_dark_link command; it became the VIP link and the DARK link is not set.
C9_Witness ==
    /\ ev.handler = "text_handler"
    /\ ev.uid \in ADMIN_IDS
    /\ ev.session.action = "set_vip"
    /\ StartsWith(ev.arg, "/set_dark_link")
    /\ help_state.vip_link = ev.arg
    /\ help_state.dark_link = <<>>
    /\ admin_sessions[ev.uid] = NoSession

\* the admins other than uid keep their sessions
OthersKeep(uid) == \A a \in ADMIN_IDS \ {uid} : admin_sessions'[a] = admin_sessions[a]

\* C10: an admin has one session at a time.  A mode button of the admin
\* panel gives the admin exactly the session of that mode, and a press of
\* "reply" on a pending ticket exactly the quick-reply session of that
\* ticket, with nothing left of an earlier session; /cancel from an admin
\* without a session is answered "no active session" and changes nothing.
C10_OneSessionPerAdmin ==
    [][/\ \A m \in {<<<<"set", "vip">>, "set_vip">>, <<<<"set", "dark">>, "set_dark">>,
                    <<<<"set", "both">>, "set_both">>, <<<<"broadcast">>, "broadcast">>} :
             (/\ ev'.handler = "handle_buttons"
              /\ ev'.uid \in ADMIN_IDS
              /\ ev'.arg = <<"adminpanel">> \o m[1])
             => /\ admin_sessions'[ev'.uid]
                      = [action |-> m[2], target_user |-> NoId, pending_id |-> None]
                /\ OthersKeep(ev'.uid)
       /\ \A id \in TicketIds :
             (/\ TechPress(ev', id, "reply")
              /\ ev'.uid \in ADMIN_IDS
              /\ help_state.pending[id] # NoTicket)
             => /\ admin_sessions'[ev'.uid]
                      = [action |-> "quick_reply",
                         target_user |-> ParseInt(help_state.pending[id].user_id),
                         pending_id |-> id]
                /\ OthersKeep(ev'.uid)
       /\ (/\ ev'.handler = "text_handler"
           /\ IsCancel(ev'.arg)
           /\ ev'.uid \in ADMIN_IDS
           /\ ev'.session = NoSession)
          => /\ reply' = <<"no_active_session">>
             /\ outbox' = <<>>
             /\ UNCHANGED <<help_state, disk, admin_sessions>>]_vars

\* C10 happens: an admin in a quick-reply session has pressed "Set VIP link"
\* and now has the set_vip session and no target user or ticket.
C10_Witness ==
    /\ ev.handler = "handle_buttons"
    /\ ev.arg = <<"adminpanel", "set", "vip">>
    /\ ev.session.action = "quick_reply"
    /\ admin_sessions[ev.uid] = [action |-> "set_vip", target_user |-> NoId, pending_id |-> None]

\* the commands that text_handler reserves for the admins
AdminCommands ==
    {"/set_vip_link", "/set_dark_link", "/set_both_link", "/get_links", "/admin",
     "/broadcast", "/insights", "/reply", "/cancel"}

\* the text is that of an admin command
IsAdminCommand(text) == text # <<>> /\ Head(text) \in AdminCommands

\* C11: the text of an admin command sent by a sender who is not on the
\* allow-list, in whatever flow state that sender is, leaves vip_link,
\* dark_link, the three counters, pending and all admin sessions unchanged.
C11_NonAdminCommandChangesNothing ==
    [][(/\ ev'.handler = "text_handler"
        /\ ev'.uid \notin ADMIN_IDS
        /\ IsAdminCommand(ev'.arg))
       => (/\ help_state'.vip_link = help_state.vip_link
           /\ help_state'.dark_link = help_state.dark_link
           /\ help_state'.counters = help_state.counters
           /\ help_state'.pending = help_state.pending
           /\ admin_sessions' = admin_sessions)]_vars

\* C12: no update whose sender is not on the allow-list changes vip_link or
\* dark_link, removes a pending ticket, or changes the session of any admin.
C12_NonAdminKeepsProtectedState ==
    [][(ev' # Idle /\ ev'.uid \notin ADMIN_IDS)
       => (/\ help_state'.vip_link = help_state.vip_link
           /\ help_state'.dark_link = help_state.dark_link
           /\ \A id \in TicketIds :
                 help_state.pending[id] # NoTicket => help_state'.pending[id] # NoTicket
           /\ admin_sessions' = admin_sessions)]_vars

\* the flow state of the sender of e when the update arrives
FlowOf(e) ==
    IF ToString(e.uid) \in DOMAIN help_state.users
    THEN help_state.users[ToString(e.uid)].last_action
    ELSE None

\* the update e is a text or a media message of a user whose flow state does
\* not match it: a text outside awaiting_tech, a media message outside both
\* awaiting states
Unmatched(e) ==
    LET last_action == FlowOf(e) IN
    /\ e.uid \notin ADMIN_IDS
    /\ \/ e.handler = "text_handler" /\ last_action # "awaiting_tech"
       \/ /\ e.handler = "photo_or_doc_handler"
          /\ last_action \notin {"awaiting_payment", "awaiting_tech"}

\* C13: a text or media message of a user whose flow state is not the
\* matching awaiting state (idle user, unknown user, text while awaiting
\* payment) is answered with a prompt and mutates nothing: users, pending,
\* counters, links and sessions keep their values and nothing is sent.
C13_UnmatchedMessageMutatesNothing ==
    [][Unmatched(ev')
       => (/\ reply' \in {<<"choose_first">>, <<"fallback">>}
           /\ outbox' = <<>>
           /\ help_state' = help_state
           /\ admin_sessions' = admin_sessions)]_vars

\* the update e is a press of a button that starts a flow
FlowPress(e) ==
    /\ e.handler = "handle_buttons"
    /\ e.arg \in {<<"payment", "vip">>, <<"payment", "dark">>, <<"payment", "both">>,
                  <<"issue", "tech">>}

\* C14: when a submission is accepted and a ticket is created, the flow state
\* of the submitting user is None at the end of the handler, in memory and in
\* the state file, whichever of the notifications to the admins fail; and a
\* press of a flow button then (as in any state) puts the user in the awaiting
\* state of that button.
C14_AcceptedSubmissionResetsFlow ==
    [][/\ (reply' \in {<<"thanks_payment">>, <<"thanks_tech">>})
          => (/\ help_state'.users[ToString(ev'.uid)].last_action = None
              /\ disk'.users[ToString(ev'.uid)].last_action = None
              /\ Len(outbox') = Cardinality(ADMIN_IDS))
       /\ FlowPress(ev')
          => help_state'.users[ToString(ev'.uid)].last_action
                 = (IF ev'.arg[1] = "payment" THEN "awaiting_payment" ELSE "awaiting_tech")]_vars

\* C14 happens: a payment submission was accepted while the notification to
\* every admin failed, and the user's flow state is None.
C14_Witness ==
    /\ ev.handler = "photo_or_doc_handler"
    /\ reply = <<"thanks_payment">>
    /\ Len(outbox) = Cardinality(ADMIN_IDS)
    /\ \A i \in DOMAIN outbox : ~outbox[i].ok
    /\ help_state.users[ToString(ev.uid)].last_action = None
    /\ \E id \in TicketIds : help_state.pending[id].user_id = ToString(ev.uid)

\* C15: in a handler that changes the persisted state and sends messages,
\* every message is sent after a save_state call of that handler: no message
\* goes out while the handler has saved nothing.
C15_SaveBeforeSend ==
    [][(help_state' # help_state /\ outbox' # <<>>)
       => \A i \in DOMAIN outbox' : outbox'[i].saves >= 1]_vars

\* C16: when the process is killed inside save_state, what load_state reads
\* from the state file at the next start is either the complete state the
\* file held before the save or the complete state that was being saved: it
\* never falls back to the defaults because the file is half-written.
C16_SaveIsAtomic ==
    [][(ev'.handler = "down")
       => load_state(disk') \in {load_state(disk), help_state'}]_vars

\* the chats a handler has called send_message for
Attempted(msgs) == {msgs[i].to : i \in DOMAIN msgs}

\* the handler has made one call per chat of K, and no other call
AttemptsAll(msgs, K) == Attempted(msgs) = K /\ Len(msgs) = Cardinality(K)

\* the calls of a handler that raised
Failed(msgs) == Cardinality({i \in DOMAIN msgs : ~msgs[i].ok})

\* every admin on the allow-list is attempted when a ticket is created
AdminsAttempted ==
    (reply' \in {<<"thanks_payment">>, <<"thanks_tech">>})
    => AttemptsAll(outbox', ADMIN_IDS)

RecordedAtBroadcast(e) ==
    RecordedUsers(help_state) \cup (IF e.session = NoSession THEN {e.uid} ELSE {})

C18_TokenRoundTrip ==
    /\ \A id \in TicketIds, a \in PayActions :
          DecodeToken(EncodePay(id, a))
              = [domain |-> "pay", pending_id |-> id, action |-> <<a>>, subject |-> NoId]
    /\ \A id \in TicketIds, a \in TechActions :
          DecodeToken(EncodeTech(id, a))
              = [domain |-> "tech", pending_id |-> id, action |-> <<a>>, subject |-> NoId]
    /\ \A admin_id \in ADMIN_IDS :
          DecodeToken(EncodeCancel(admin_id))
              = [domain |-> "quick_cancel", pending_id |-> None, action |-> <<>>,
                 subject |-> admin_id]
    /\ (ev.handler = "handle_buttons" /\ reply = <<"quick_reply_mode">>)
       => /\ DecodeToken(ev.arg).domain = "tech"
          /\ DecodeToken(ev.arg).action = <<"reply">>
          /\ admin_sessions[ev.uid].pending_id = DecodeToken(ev.arg).pending_id

\* C18 happens: an admin has pressed the "reply" button built for a pending
\* tech ticket, and the session opened is bound to the id the token was
\* built from.
C18_Witness ==
    /\ ev.handler = "handle_buttons"
    /\ ev.uid \in ADMIN_IDS
    /\ \E id \in TicketIds :
          /\ ev.arg = EncodeTech(id, "reply")
          /\ help_state.pending[id].type = "tech"
          /\ admin_sessions[ev.uid].pending_id = id
    /\ reply = <<"quick_reply_mode">>

\* C19: a button token that is malformed, truncated, or names an unknown
\* domain or action is not treated as a valid action and causes no state
\* change: users, pending, links, counters, the state file and the sessions
\* keep their values and nothing is sent.
C19_MalformedTokenChangesNothing ==
    [][(/\ ev'.handler \in {"handle_buttons", "handle_quick_cancel"}
        /\ ev'.arg \in MalformedTokens)
       => (/\ help_state' = help_state
           /\ disk' = disk
           /\ admin_sessions' = admin_sessions
           /\ outbox' = <<>>)]_vars

\* the update e is a media message that is accepted as a payment submission
AcceptedPayment(e) ==
    e.handler = "photo_or_doc_handler" /\ FlowOf(e) = "awaiting_payment"

\* the update e is a media message or a text that is accepted as a tech
\* submission; a text of an admin who cancels or has a session is not
AcceptedTech(e) ==
    /\ FlowOf(e) = "awaiting_tech"
    /\ \/ e.handler = "photo_or_doc_handler"
       \/ /\ e.handler = "text_handler"
          /\ ~(e.uid \in ADMIN_IDS /\ (IsCancel(e.arg) \/ e.session # NoSession))

\* C20: payment_submitted and tech_submitted never decrease; an accepted
\* payment submission raises payment_submitted by exactly one and an accepted
\* tech submission, text or media, raises tech_submitted by exactly one,
\* whichever notifications to the admins fail; no other step changes them.
C20_SubmissionCounters ==
    [][LET c == help_state.counters
           d == help_state'.counters
       IN
       /\ d.payment_submitted >= c.payment_submitted
       /\ d.tech_submitted >= c.tech_submitted
       /\ d.payment_submitted
              = c.payment_submitted + (IF AcceptedPayment(ev') THEN 1 ELSE 0)
       /\ d.tech_submitted
              = c.tech_submitted + (IF AcceptedTech(ev') THEN 1 ELSE 0)]_vars

\* C20 happens: after one payment submission, a tech description sent as text
\* was accepted while every notification failed, and each counter is one.
C20_Witness ==
    /\ ev.handler = "text_handler"
    /\ reply = <<"thanks_tech">>
    /\ outbox # <<>> /\ \A i \in DOMAIN outbox : ~outbox[i].ok
    /\ help_state.counters.payment_submitted = 1
    /\ help_state.counters.tech_submitted = 1

\* the admins whose approval is suspended at an await
Suspended == {a \in ADMIN_IDS : tasks[a] # NoTask}

C22_ResolvedIdNeverPendingAgain ==
    \A id \in hist.resolved : help_state.pending[id] = NoTicket

\* the link messages of the handling that were delivered
DeliveredLinks(msgs) == {i \in DOMAIN msgs : msgs[i].kind = "link" /\ msgs[i].ok}

\* C27: whatever the sequence of approve presses on a payment ticket, the user
\* receives each configured link at most once: an approve press delivers no
\* link that an earlier press on the same ticket has delivered, and no link
\* twice.
C27_LinkDeliveredAtMostOnce ==
    [][\A id \in TicketIds, a \in PayActions :
          PayPress(ev', id, a)
          => /\ \A i \in DeliveredLinks(outbox') : <<id, outbox'[i].body>> \notin hist.delivered
             /\ \A i, j \in DeliveredLinks(outbox') : i # j => outbox'[i].body # outbox'[j].body]_vars

\* the number of whitespace-separated values of a text: the places where a
\* value starts
WordCount(text) ==
    Cardinality({i \in DOMAIN text : text[i] # WS /\ (i = 1 \/ text[i - 1] = WS)})

\* the update e is a text of admin a, other than the cancel directive, that
\* arrives while a has a session
SessionPayload(e, a) ==
    /\ e.handler = "text_handler"
    /\ e.uid = a
    /\ e.session # NoSession
    /\ ~IsCancel(e.arg)

\* C23: an admin's session ends exactly when its action completes or it is
\* cancelled.  After a text consumed as the payload of a set_vip, set_dark,
\* broadcast or quick_reply session, or of a set_both session with two or more
\* whitespace-separated values, the admin has no session; a set_both payload
\* with fewer than two values changes neither link and leaves the set_both
\* session as it was; and a session ends by no other step than such a text or
\* a cancel (the /cancel text of the admin or a press of the cancel button
\* that carries the admin's id).
C23_SessionEndsWithItsAction ==
    [][\A a \in ADMIN_IDS :
          /\ SessionPayload(ev', a)
             => IF ev'.session.action = "set_both" /\ WordCount(ev'.arg) < 2
                THEN /\ help_state'.vip_link = help_state.vip_link
                     /\ help_state'.dark_link = help_state.dark_link
                     /\ admin_sessions'[a] = ev'.session
                ELSE admin_sessions'[a] = NoSession
          /\ (admin_sessions[a] # NoSession /\ admin_sessions'[a] = NoSession)
             => \/ SessionPayload(ev', a)
                \/ ev'.handler = "text_handler" /\ ev'.uid = a /\ IsCancel(ev'.arg)
                \/ /\ ev'.handler = "handle_quick_cancel"
                   /\ ev'.arg = <<"admin", "quick", "cancel", ToString(a)>>]_vars

\* C23 happens: an admin in a set_both session has sent one value; the answer
\* asks for two URLs, and the session is still the set_both session.
C23_Witness ==
    /\ ev.handler = "text_handler"
    /\ ev.session.action = "set_both"
    /\ WordCount(ev.arg) = 1
    /\ reply = <<"need_two_urls">>
    /\ admin_sessions[ev.uid] = ev.session

\* C24: whenever an admin holds a quick-reply session, the ticket named by
\* its pending_id is still in pending.
C24_QuickReplyTicketIsPending ==
    \A a \in ADMIN_IDS :
       admin_sessions[a].action = "quick_reply"
       => help_state.pending[admin_sessions[a].pending_id] # NoTicket

\* C25: an admin's session is created, replaced and cleared only by updates
\* that this admin sends: an update of any other sender, a press of the
\* cancel button carrying the admin's id included, leaves the session as it
\* is.
C25_SessionChangedOnlyByItsAdmin ==
    [][\A a \in ADMIN_IDS :
          (ev' # Idle /\ ev'.uid # a) => admin_sessions'[a] = admin_sessions[a]]_vars

\* C26: when a handler has finished, by a return or by an exception, the
\* persisted state is the state in memory.
C26_DiskEqualsMemory ==
    ev # Idle => disk = help_state

\* C28: an admin command sent as text by an admin who has no session takes
\* its admin effect in every state of the admin's user flow: /set_vip_link
\* <url> sets vip_link to the url, creates no ticket and changes no counter,
\* with last_action none, awaiting_payment or awaiting_tech alike.
C28_AdminCommandInEveryFlowState ==
    [][(/\ ev'.handler = "text_handler"
        /\ ev'.uid \in ADMIN_IDS
        /\ ev'.session = NoSession
        /\ StartsWith(ev'.arg, "/set_vip_link")
        /\ WordCount(ev'.arg) = 2)
       => /\ help_state'.vip_link = SubSeq(ev'.arg, 3, 3)
          /\ help_state'.pending = help_state.pending
          /\ help_state'.counters = help_state.counters]_vars

====
